---- MODULE Spec2Model ----
(***************************************************************************)
(* A model of the CRISH API (src/main.py): a read-only HTTP service over a *)
(* relational store holding case reports and three daily weather tables.   *)
(*                                                                         *)
(* Conventions of the model                                                *)
(*  - An optional value (a Python None, a SQL NULL) is the empty tuple,    *)
(*    a present value v is the one-element tuple <<v>>.                    *)
(*  - A float is an integer number of hundredths (30.00 is 3000).          *)
(*  - A table is the sequence of its rows in the store's row order.        *)
(***************************************************************************)
EXTENDS Integers, Sequences, FiniteSets, TLC

VARIABLES
    case_reports,                     \* table case_reports
    rh_daily_avg_region,              \* table rh_daily_avg_region (humidity)
    tmax_daily_tmax_region,           \* table tmax_daily_tmax_region
    rainfall_daily_weighted_average,  \* table rainfall_daily_weighted_average
    pc,                               \* position of each request
    sess,                             \* the session get_db gave each request
    sessions,                         \* every session made so far: open/closed
    status,                           \* HTTP status each request ended with
    response                          \* what the last observed handler answered

store == <<case_reports, rh_daily_avg_region, tmax_daily_tmax_region,
           rainfall_daily_weighted_average>>
vars == <<case_reports, rh_daily_avg_region, tmax_daily_tmax_region,
          rainfall_daily_weighted_average, pc, sess, sessions, status, response>>

(***************************************************************************)
(* Bounds of the model.                                                    *)
(***************************************************************************)
MaxReports == 3
MaxRows == 2
MaxPage == 3
MaxPageSize == 2
NumReq == 2

None == << >>
Some(v) == <<v>>

Min(a, b) == IF a < b THEN a ELSE b

\* The injective sequences of length n over the set S.
InjSeqs(S, n) ==
    {s \in [1..n -> S] : \A i, j \in 1..n : i # j => s[i] # s[j]}

\* The injective sequences of length at most n over the set S.
InjSeqsUpTo(S, n) == UNION {InjSeqs(S, k) : k \in 0..n}

(***************************************************************************)
(* The rows the tables are filled from.                                    *)
(***************************************************************************)
\* class CaseReport: the columns the operations read.  id is the primary
\* key; caseType is declared str by CaseReportModel, reportingEntityType and
\* weekNumber are Optional.
CaseReport(id, caseType, reportingEntityType, weekNumber) ==
    [id |-> id, caseType |-> caseType,
     reportingEntityType |-> reportingEntityType, weekNumber |-> weekNumber]

CaseReportRows ==
    { CaseReport(11, "dengue", Some("hospital"), Some(1)),
      CaseReport(12, "dengue", Some("hospital"), Some(0)),
      CaseReport(13, "dengue", None, Some(1)),
      CaseReport(14, "malaria", Some("hospital"), None),
      CaseReport(15, "malaria", Some("clinic"), Some(1)),
      CaseReport(16, "dengue", Some("hospital"), Some(1)) }

\* The three weather tables have the same columns; forecast_date and
\* municipality_code form the primary key, value is a nullable Float.
\* day_name and municipality_name are present in every row, as WeatherData
\* declares them (str): a NULL there fails the WeatherData constructor.
WeatherRow(forecast_date, day_name, value, municipality_code, municipality_name) ==
    [forecast_date |-> forecast_date, day_name |-> day_name, value |-> value,
     municipality_code |-> municipality_code,
     municipality_name |-> municipality_name]

RelativeHumidityDailyAverage ==
    << WeatherRow("2025-01-06", "Monday", Some(5000), "TL-DI", "Dili"),
       WeatherRow("2025-01-06", "Sunday", Some(6000), "TL-DI", "Dili"),
       WeatherRow("2025-01-06", "Monday", None, "TL-BA", "Baucau"),
       WeatherRow("2025-01-07", "Tuesday", Some(8000), "TL-DI", "Dili") >>

TemperatureDailyMax ==
    << WeatherRow("2025-01-06", "Monday", Some(3000), "TL-DI", "Dili"),
       WeatherRow("2025-01-06", "Monday", Some(-27315), "TL-DI", "Dili"),
       WeatherRow("2025-01-06", "Monday", Some(2500), "TL-BA", "Baucau"),
       WeatherRow("2025-01-06", "Monday", None, "TL-BA", "Baucau"),
       WeatherRow("2025-01-07", "Tuesday", Some(-27500), "TL-DI", "Dili") >>

RainfallDailyWeightedAverage ==
    << WeatherRow("2025-01-06", "Monday", Some(1250), "TL-DI", "Dili") >>

\* primary_key=True on forecast_date and municipality_code.
PrimaryKeyUnique(t) ==
    \A i, j \in 1..Len(t) :
        (/\ t[i].forecast_date = t[j].forecast_date
         /\ t[i].municipality_code = t[j].municipality_code) => i = j

\* primary_key=True on CaseReport.id.
IdUnique(t) == \A i, j \in 1..Len(t) : t[i].id = t[j].id => i = j

Range(s) == {s[i] : i \in 1..Len(s)}

\* The rows of `rows` that are in the set S, in the order of `rows`.
Restrict(rows, S) ==
    LET Chosen(row) == row \in S
    IN  SelectSeq(rows, Chosen)

\* The weather tables of at most MaxRows rows drawn from `rows`.
Tables(rows) ==
    {t \in {Restrict(rows, S) : S \in SUBSET Range(rows)} :
        Len(t) <= MaxRows /\ PrimaryKeyUnique(t)}

\* The case_reports tables: at most MaxReports rows in any row order.
CaseReportTables ==
    {t \in InjSeqsUpTo(CaseReportRows, MaxReports) : IdUnique(t)}

(***************************************************************************)
(* compute_heat_index, in fixed point.                                     *)
(***************************************************************************)
\* math.exp on [0, 1): x and the result are in thousandths.
ExpFraction(x) ==
    LET t1 == x
        t2 == (t1 * x) \div 2000
        t3 == (t2 * x) \div 3000
        t4 == (t3 * x) \div 4000
        t5 == (t4 * x) \div 5000
        t6 == (t5 * x) \div 6000
    IN  1000 + t1 + t2 + t3 + t4 + t5 + t6

\* math.exp: x and the result are in thousandths.
RECURSIVE Exp(_)
Exp(x) ==
    IF x < -20000 THEN 0
    ELSE IF x < 0 THEN 1000000 \div Exp(-x)
    ELSE IF x >= 1000 THEN (2718 * Exp(x - 1000)) \div 1000
    ELSE ExpFraction(x)

\* The argument of math.exp, in thousandths, for a temperature in hundredths:
\* 5417.7530 * (1/273.15 - 1/(273.15 + T)) = (5417.7530/273.15) * T/(273.15 + T).
ExpArgument(temperature) ==
    (19834 * temperature) \div (27315 + temperature)

\* The largest argument math.exp takes without OverflowError, in thousandths.
ExpOverflow == 709782

\* The try block raises: ZeroDivisionError at 273.15 + T = 0, OverflowError
\* from math.exp.
HeatIndexRaises(temperature) ==
    \/ 27315 + temperature = 0
    \/ ExpArgument(temperature) > ExpOverflow

\* temperature + 0.5555 * (6.11 * exp(...) - 10), in hundredths.
HeatIndexFormula(temperature) ==
    LET e == Exp(ExpArgument(temperature))
        vapour == (611 * e) \div 100 - 10000
    IN  temperature + ((5555 * vapour) \div 10000) \div 10

\* A variant of compute_heat_index that weighs the humidity in.
compute_heat_index_humid(temperature, humidity) ==
    IF temperature = None \/ humidity = None THEN None
    ELSE IF HeatIndexRaises(temperature[1]) THEN None
    ELSE Some(HeatIndexFormula(temperature[1]) + humidity[1] \div 100)

\* A variant of compute_heat_index that tests the temperature alone for None.
compute_heat_index_unguarded(temperature, humidity) ==
    IF temperature = None THEN None
    ELSE IF HeatIndexRaises(temperature[1]) THEN None
    ELSE Some(HeatIndexFormula(temperature[1]))

\* def compute_heat_index(temperature, humidity)
compute_heat_index(temperature, humidity) ==
    IF temperature = None \/ humidity = None THEN None
    ELSE IF HeatIndexRaises(temperature[1]) THEN None
    ELSE Some(HeatIndexFormula(temperature[1]))

(***************************************************************************)
(* The query layer.                                                        *)
(***************************************************************************)
\* Python truthiness of an optional str argument: `if caseType:`.
TruthyStr(arg) == arg # None /\ arg[1] # ""

\* A variant of TruthyInt that tests presence: `if weekNumber is not None:`.
PresentInt(arg) == arg # None

\* Python truthiness of an optional int argument: `if weekNumber:`.
TruthyInt(arg) == arg # None /\ arg[1] # 0

\* SQL `column = value` on a nullable column: a NULL equals nothing.
ColumnEquals(column, value) == column # None /\ column[1] = value

\* Query.offset(n)
Offset(rows, n) == SubSeq(rows, n + 1, Len(rows))

\* Query.limit(n)
Limit(rows, n) == SubSeq(rows, 1, Min(n, Len(rows)))

\* The three `if ...: query = query.filter(...)` statements of get_case_reports.
CaseReportFilter(caseType, reportingEntityType, weekNumber) ==
    LET ByCaseType(row) == row.caseType = caseType[1]
        ByEntityType(row) ==
            ColumnEquals(row.reportingEntityType, reportingEntityType[1])
        ByWeekNumber(row) == ColumnEquals(row.weekNumber, weekNumber[1])
        q0 == case_reports
        q1 == IF TruthyStr(caseType) THEN SelectSeq(q0, ByCaseType) ELSE q0
        q2 == IF TruthyStr(reportingEntityType)
              THEN SelectSeq(q1, ByEntityType) ELSE q1
        q3 == IF TruthyInt(weekNumber) THEN SelectSeq(q2, ByWeekNumber) ELSE q2
    IN  q3

\* A variant of PageOffset that counts pages from 0.
PageOffsetFromZero(page, page_size) == page * page_size

\* offset = (page - 1) * page_size
PageOffset(page, page_size) == (page - 1) * page_size

\* A variant of get_case_reports_result without the `if not case_reports`
\* check: an empty page is returned.
get_case_reports_result_unchecked(caseType, reportingEntityType, weekNumber, page, page_size) ==
    LET query == CaseReportFilter(caseType, reportingEntityType, weekNumber)
        offset == PageOffset(page, page_size)
        rows == Limit(Offset(query, offset), page_size)
    IN  [status |-> 200, body |-> rows]

\* get_case_reports: what the handler returns or raises.
get_case_reports_result(caseType, reportingEntityType, weekNumber, page, page_size) ==
    LET query == CaseReportFilter(caseType, reportingEntityType, weekNumber)
        offset == PageOffset(page, page_size)
        rows == Limit(Offset(query, offset), page_size)
    IN  IF rows = << >>
        THEN [status |-> 404, detail |-> "No case reports found"]
        ELSE [status |-> 200, body |-> rows]

\* A variant of FirstById without the filter: the first row of the table.
FirstRow(report_id) ==
    IF case_reports = << >> THEN None ELSE Some(case_reports[1])

\* db.query(CaseReport).filter(CaseReport.id == report_id).first()
FirstById(report_id) ==
    LET ById(row) == row.id = report_id
        found == SelectSeq(case_reports, ById)
    IN  IF found = << >> THEN None ELSE Some(found[1])

\* get_case_report: what the handler returns or raises.
get_case_report_result(report_id) ==
    LET report == FirstById(report_id)
    IN  IF report = None
        THEN [status |-> 404, detail |-> "Case report not found"]
        ELSE [status |-> 200, body |-> report[1]]

\* A variant of JoinOn that omits the municipality_code comparison.
JoinOnDate(rh, other) ==
    /\ rh.forecast_date = other.forecast_date
    /\ rh.day_name = other.day_name

\* The and_(...) of both joins: forecast_date, day_name and municipality_code
\* of the humidity row equal those of the joined row.
JoinOn(rh, other) ==
    /\ rh.forecast_date = other.forecast_date
    /\ rh.day_name = other.day_name
    /\ rh.municipality_code = other.municipality_code

\* A variant of OuterMatches for an inner join: no NULL row.
InnerMatches(rh, table) ==
    LET On(other) == JoinOn(rh, other)
        matched == SelectSeq(table, On)
    IN  [i \in 1..Len(matched) |-> Some(matched[i])]

\* join(..., isouter=True): the rows of `table` the humidity row joins with,
\* or one NULL row when there is none.
OuterMatches(rh, table) ==
    LET On(other) == JoinOn(rh, other)
        matched == SelectSeq(table, On)
    IN  IF matched = << >> THEN << None >>
        ELSE [i \in 1..Len(matched) |-> Some(matched[i])]

\* One row of the joined query: the labelled columns, and the humidity row's
\* municipality_code, which the filters read.
JoinedRow(rh, tmax, rain) ==
    [forecast_date |-> rh.forecast_date,
     day_name |-> rh.day_name,
     municipality_name |-> rh.municipality_name,
     municipality_code |-> rh.municipality_code,
     relative_humidity |-> rh.value,
     temperature_max |-> IF tmax = None THEN None ELSE tmax[1].value,
     rainfall |-> IF rain = None THEN None ELSE rain[1].value]

\* The joined rows one humidity row gives: one per pair of a temperature
\* match and a rainfall match.
JoinedRowsOf(rh) ==
    LET mt == OuterMatches(rh, tmax_daily_tmax_region)
        mr == OuterMatches(rh, rainfall_daily_weighted_average)
    IN  [k \in 1..(Len(mt) * Len(mr)) |->
            JoinedRow(rh, mt[((k - 1) \div Len(mr)) + 1],
                          mr[((k - 1) % Len(mr)) + 1])]

\* The joined query over the first n humidity rows.
RECURSIVE JoinedQuery(_)
JoinedQuery(n) ==
    IF n = 0 THEN << >>
    ELSE JoinedQuery(n - 1) \o JoinedRowsOf(rh_daily_avg_region[n])

\* The three `if ...: query = query.filter(...)` statements of
\* fetch_weather_data, on the humidity table's columns.
WeatherFilter(forecast_date, municipality_code, municipality_name) ==
    LET ByDate(row) == row.forecast_date = forecast_date[1]
        ByCode(row) == row.municipality_code = municipality_code[1]
        ByName(row) == row.municipality_name = municipality_name[1]
        q0 == JoinedQuery(Len(rh_daily_avg_region))
        q1 == IF TruthyStr(forecast_date) THEN SelectSeq(q0, ByDate) ELSE q0
        q2 == IF TruthyStr(municipality_code) THEN SelectSeq(q1, ByCode) ELSE q1
        q3 == IF TruthyStr(municipality_name) THEN SelectSeq(q2, ByName) ELSE q2
    IN  q3

\* class WeatherData, built from one row of the result.
WeatherData(row) ==
    [forecast_date |-> row.forecast_date,
     day_name |-> row.day_name,
     municipality_name |-> row.municipality_name,
     relative_humidity |-> row.relative_humidity,
     temperature_max |-> row.temperature_max,
     rainfall |-> row.rainfall,
     heat_index |-> compute_heat_index(row.temperature_max, row.relative_humidity)]

\* fetch_weather_data: what the handler returns or raises.
fetch_weather_data_result(forecast_date, municipality_code, municipality_name) ==
    LET results == WeatherFilter(forecast_date, municipality_code, municipality_name)
    IN  IF results = << >>
        THEN [status |-> 404, detail |-> "No data found for the given filters"]
        ELSE [status |-> 200,
              body |-> [i \in 1..Len(results) |-> WeatherData(results[i])]]

(***************************************************************************)
(* The arguments requests are made with.                                   *)
(***************************************************************************)
CaseTypeArgs == {None, Some(""), Some("dengue")}
EntityTypeArgs == {None, Some("hospital")}
WeekNumberArgs == {None, Some(0), Some(1)}
Pages == 1..MaxPage
PageSizes == 1..MaxPageSize
ReportIds == {11, 12, 13, 14, 99}
ForecastDateArgs == {None, Some(""), Some("2025-01-06")}
MunicipalityCodeArgs == {None, Some("TL-DI")}
MunicipalityNameArgs == {None, Some("Baucau"), Some("Dili")}

Requests == 1..NumReq

(***************************************************************************)
(* Requests.  A request goes idle -> handler -> returned or raised -> done. *)
(***************************************************************************)
NoResponse == [op |-> "none"]

\* get_db up to its yield: db = SessionLocal() makes a new session.
get_db(r) ==
    /\ pc[r] = "idle"
    /\ sessions' = Append(sessions, "open")
    /\ sess' = [sess EXCEPT ![r] = Len(sessions) + 1]
    /\ pc' = [pc EXCEPT ![r] = "handler"]
    /\ UNCHANGED <<store, status, response>>

\* The handler of request r ends with `result`: a return, or an HTTPException.
Answer(r, result) ==
    /\ pc[r] = "handler"
    /\ sessions[sess[r]] = "open"
    /\ pc' = [pc EXCEPT ![r] = IF result.status = 200 THEN "returned" ELSE "raised"]
    /\ status' = [status EXCEPT ![r] = result.status]
    /\ UNCHANGED <<store, sess, sessions>>

\* What an observer of the service records of one call.
Observed(observe, op, args, result) ==
    response' = IF observe THEN [op |-> op, args |-> args, result |-> result]
                ELSE response

\* GET /case_reports
get_case_reports(r, observe) ==
    \E caseType \in CaseTypeArgs, reportingEntityType \in EntityTypeArgs,
       weekNumber \in WeekNumberArgs, page \in Pages, page_size \in PageSizes :
        LET args == [caseType |-> caseType,
                     reportingEntityType |-> reportingEntityType,
                     weekNumber |-> weekNumber, page |-> page,
                     page_size |-> page_size]
            result == get_case_reports_result(caseType, reportingEntityType,
                                              weekNumber, page, page_size)
        IN  /\ Answer(r, result)
            /\ Observed(observe, "get_case_reports", args, result)

\* GET /case_reports/{report_id}
get_case_report(r, observe) ==
    \E report_id \in ReportIds :
        LET result == get_case_report_result(report_id)
        IN  /\ Answer(r, result)
            /\ Observed(observe, "get_case_report", [report_id |-> report_id], result)

\* GET /weather
fetch_weather_data(r, observe) ==
    \E forecast_date \in ForecastDateArgs,
       municipality_code \in MunicipalityCodeArgs,
       municipality_name \in MunicipalityNameArgs :
        LET args == [forecast_date |-> forecast_date,
                     municipality_code |-> municipality_code,
                     municipality_name |-> municipality_name]
            result == fetch_weather_data_result(forecast_date, municipality_code,
                                                municipality_name)
        IN  /\ Answer(r, result)
            /\ Observed(observe, "fetch_weather_data", args, result)

\* A store call of the handler raises (the store is down, the query fails):
\* no handler catches it, and the request fails with a server error.
store_error(r, observe) ==
    LET result == [status |-> 500, detail |-> "Internal Server Error"]
    IN  /\ Answer(r, result)
        /\ Observed(observe, "store_error", [raised |-> TRUE], result)

\* A variant of db_close without the `finally`: the session is closed after
\* a return only.
db_close_on_return(r) ==
    /\ pc[r] \in {"returned", "raised"}
    /\ sessions' = IF pc[r] = "returned"
                   THEN [sessions EXCEPT ![sess[r]] = "closed"]
                   ELSE sessions
    /\ pc' = [pc EXCEPT ![r] = "done"]
    /\ UNCHANGED <<store, sess, status, response>>

\* get_db after its yield: `finally: db.close()`, on a return and on a raise.
db_close(r) ==
    /\ pc[r] \in {"returned", "raised"}
    /\ sessions' = [sessions EXCEPT ![sess[r]] = "closed"]
    /\ pc' = [pc EXCEPT ![r] = "done"]
    /\ UNCHANGED <<store, sess, status, response>>

(***************************************************************************)
(* Spec: one request against any store of the bounds, its call observed.   *)
(***************************************************************************)
InitRequests ==
    /\ pc = [r \in Requests |-> "idle"]
    /\ sess = [r \in Requests |-> 0]
    /\ sessions = << >>
    /\ status = [r \in Requests |-> 0]
    /\ response = NoResponse

\* The case-report operations read case_reports alone and the weather fetch
\* the three weather tables alone: a store fills one side or the other.
Init ==
    /\ InitRequests
    /\ \/ /\ case_reports \in CaseReportTables
          /\ rh_daily_avg_region = << >>
          /\ tmax_daily_tmax_region = << >>
          /\ rainfall_daily_weighted_average = << >>
       \/ /\ case_reports = << >>
          /\ rh_daily_avg_region \in Tables(RelativeHumidityDailyAverage)
          /\ tmax_daily_tmax_region \in Tables(TemperatureDailyMax)
          /\ rainfall_daily_weighted_average \in Tables(RainfallDailyWeightedAverage)

Next ==
    \/ get_db(1)
    \/ get_case_reports(1, TRUE)
    \/ get_case_report(1, TRUE)
    \/ fetch_weather_data(1, TRUE)
    \/ store_error(1, TRUE)
    \/ db_close(1)

Spec == Init /\ [][Next]_vars

(***************************************************************************)
(* SpecConcurrent: NumReq requests interleaved, against a few stores;      *)
(* only the status of each request is kept.                                *)
(***************************************************************************)
InitConcurrent ==
    /\ InitRequests
    /\ case_reports \in
         {<< >>, << CaseReport(11, "dengue", Some("hospital"), Some(1)) >>}
    /\ rh_daily_avg_region \in
         {<< >>, << RelativeHumidityDailyAverage[1] >>}
    /\ tmax_daily_tmax_region = << >>
    /\ rainfall_daily_weighted_average = << >>

NextConcurrent ==
    \E r \in Requests :
        \/ get_db(r)
        \/ get_case_reports(r, FALSE)
        \/ get_case_report(r, FALSE)
        \/ fetch_weather_data(r, FALSE)
        \/ store_error(r, FALSE)
        \/ db_close(r)

SpecConcurrent == InitConcurrent /\ [][NextConcurrent]_vars

(***************************************************************************)
(* The properties.                                                         *)
(*                                                                         *)
(* A filter is supplied when the request carries a value for it: a week    *)
(* number is supplied when it is present (0 included); a text filter is    *)
(* supplied when it is present and not the empty string (the query         *)
(* `?caseType=` carries no value).                                         *)
(***************************************************************************)
SuppliedText(arg) == arg # None /\ arg[1] # ""
SuppliedNumber(arg) == arg # None

ListObserved == response.op = "get_case_reports"
GetObserved == response.op = "get_case_report"
WeatherObserved == response.op = "fetch_weather_data"
Succeeded == response.result.status = 200

\* The case reports a list request with arguments a selects, by the claims'
\* reading of the filters: conjunctive exact matches of the supplied filters.
MatchesFilters(row, a) ==
    /\ SuppliedText(a.caseType) => row.caseType = a.caseType[1]
    /\ SuppliedText(a.reportingEntityType) =>
           row.reportingEntityType = Some(a.reportingEntityType[1])
    /\ SuppliedNumber(a.weekNumber) => row.weekNumber = Some(a.weekNumber[1])

\* The humidity rows a weather request with arguments a selects.
PassesFilters(rh, a) ==
    /\ SuppliedText(a.forecast_date) => rh.forecast_date = a.forecast_date[1]
    /\ SuppliedText(a.municipality_code) =>
           rh.municipality_code = a.municipality_code[1]
    /\ SuppliedText(a.municipality_name) =>
           rh.municipality_name = a.municipality_name[1]

PassingRows(a) ==
    LET Passes(rh) == PassesFilters(rh, a)
    IN  SelectSeq(rh_daily_avg_region, Passes)

\* The observation obs was made from the humidity row rh.
ObservationOf(obs, rh) ==
    /\ obs.forecast_date = rh.forecast_date
    /\ obs.day_name = rh.day_name
    /\ obs.municipality_name = rh.municipality_name
    /\ obs.relative_humidity = rh.value

\* Some row of the table agrees with rh on forecast_date, day_name and
\* municipality_code.
Agrees(rh, table) ==
    \E i \in 1..Len(table) :
        /\ table[i].forecast_date = rh.forecast_date
        /\ table[i].day_name = rh.day_name
        /\ table[i].municipality_code = rh.municipality_code

\* The filtered sequence of the observed list request, as the query builds it.
FilteredOf(a) == CaseReportFilter(a.caseType, a.reportingEntityType, a.weekNumber)

\* The pages 1..n of the filtered sequence of a, concatenated.
RECURSIVE PagesUpTo(_, _)
PagesUpTo(a, n) ==
    IF n = 0 THEN << >>
    ELSE LET page == get_case_reports_result(a.caseType, a.reportingEntityType,
                                             a.weekNumber, n, a.page_size)
         IN  PagesUpTo(a, n - 1) \o (IF page.status = 200 THEN page.body ELSE << >>)

\* The number of pages of page_size rows that n rows fill.
PageCount(n, page_size) == (n + page_size - 1) \div page_size

\* C1: a successful list response holds at most page_size records and is the
\* slice of the filtered sequence that starts at offset (page-1)*page_size;
\* the pages 1, 2, ... concatenated in order are the filtered sequence, every
\* record once, none repeated and none skipped.
C1_PagesPartitionFilteredSet ==
    ListObserved =>
        LET a == response.args
            filtered == FilteredOf(a)
            offset == (a.page - 1) * a.page_size
            pages == PageCount(Len(filtered), a.page_size)
        IN  /\ Succeeded =>
                LET body == response.result.body
                IN  /\ Len(body) <= a.page_size
                    /\ offset + Len(body) <= Len(filtered)
                    /\ Len(body) = Min(a.page_size, Len(filtered) - offset)
                    /\ \A i \in 1..Len(body) : body[i] = filtered[offset + i]
            /\ PagesUpTo(a, pages) = filtered
            /\ \A p \in 1..pages :
                   get_case_reports_result(a.caseType, a.reportingEntityType,
                                           a.weekNumber, p, a.page_size).status = 200

\* C1 witness: the second page, of one record, of a filtered sequence from
\* which a filter excluded a record of the table.
C1_Witness ==
    /\ ListObserved /\ Succeeded
    /\ response.args.page = 2
    /\ response.args.page_size = 1
    /\ Len(FilteredOf(response.args)) >= 2
    /\ Len(FilteredOf(response.args)) < Len(case_reports)
    /\ response.result.body = << FilteredOf(response.args)[2] >>

\* C2: every record of a successful list response has caseType,
\* reportingEntityType and weekNumber equal to each filter that was supplied,
\* and the filtered set that is paginated excludes no record that satisfies
\* all the supplied filters.
C2_FiltersAreExactMatches ==
    ListObserved =>
        LET a == response.args
            filtered == FilteredOf(a)
        IN  /\ Succeeded =>
                \A i \in 1..Len(response.result.body) :
                    MatchesFilters(response.result.body[i], a)
            /\ \A i \in 1..Len(case_reports) :
                   MatchesFilters(case_reports[i], a) =>
                       \E j \in 1..Len(filtered) : filtered[j] = case_reports[i]

\* C3: every humidity row that passes the supplied filters is in the weather
\* response, also when no temperature-max row or no rainfall row agrees with
\* it on forecast_date, day_name and municipality_code; then temperature_max,
\* respectively rainfall, is absent, and heat_index is absent whenever
\* temperature_max is.
C3_AnchorRowsAreKept ==
    WeatherObserved =>
        LET a == response.args
        IN  \A i \in 1..Len(rh_daily_avg_region) :
                LET rh == rh_daily_avg_region[i]
                IN  PassesFilters(rh, a) =>
                        /\ Succeeded
                        /\ \E k \in 1..Len(response.result.body) :
                               ObservationOf(response.result.body[k], rh)
                        /\ \A k \in 1..Len(response.result.body) :
                               LET obs == response.result.body[k]
                               IN  ObservationOf(obs, rh) =>
                                     /\ ~Agrees(rh, tmax_daily_tmax_region) =>
                                            obs.temperature_max = None
                                     /\ ~Agrees(rh, rainfall_daily_weighted_average) =>
                                            obs.rainfall = None
                                     /\ obs.temperature_max = None =>
                                            obs.heat_index = None

\* C3 witness: a response that holds a humidity row with a present value that
\* neither a temperature-max row nor a rainfall row agrees with, while both
\* tables hold rows.
C3_Witness ==
    /\ WeatherObserved /\ Succeeded
    /\ tmax_daily_tmax_region # << >>
    /\ rainfall_daily_weighted_average # << >>
    /\ \E i \in 1..Len(rh_daily_avg_region) :
           LET rh == rh_daily_avg_region[i]
           IN  /\ PassesFilters(rh, response.args)
               /\ rh.value # None
               /\ ~Agrees(rh, tmax_daily_tmax_region)
               /\ ~Agrees(rh, rainfall_daily_weighted_average)
               /\ \E k \in 1..Len(response.result.body) :
                      /\ ObservationOf(response.result.body[k], rh)
                      /\ response.result.body[k].temperature_max = None
                      /\ response.result.body[k].rainfall = None
                      /\ response.result.body[k].heat_index = None

\* C4: with (forecast_date, municipality_code) unique in each weather table,
\* a successful weather fetch returns exactly one observation per humidity
\* row that passes the supplied filters, in one response: none dropped, none
\* duplicated, and none made from a temperature-max or rainfall row alone.
C4_OneObservationPerAnchorRow ==
    (WeatherObserved /\ Succeeded) =>
        LET passing == PassingRows(response.args)
            body == response.result.body
        IN  /\ Len(body) = Len(passing)
            /\ \A i \in 1..Len(body) : ObservationOf(body[i], passing[i])

\* C4 witness: a response of one observation, from a store whose
\* temperature-max table holds two rows of the observation's date, one of
\* them with no humidity row of its key.
C4_Witness ==
    /\ WeatherObserved /\ Succeeded
    /\ Len(response.result.body) = 1
    /\ Len(rh_daily_avg_region) = 2
    /\ Len(tmax_daily_tmax_region) = 2
    /\ \A i \in 1..2 :
           tmax_daily_tmax_region[i].forecast_date =
               response.result.body[1].forecast_date
    /\ response.result.body[1].temperature_max # None
    /\ \E i \in 1..2 :
           \A j \in 1..2 :
               tmax_daily_tmax_region[i].municipality_code #
                   rh_daily_avg_region[j].municipality_code

\* C5: no list endpoint answers success with an empty array.  The list of
\* case reports fails with 404 exactly when the slice selected after filters
\* and paging is empty, the weather fetch exactly when no joined row passes
\* the filters; every other answer is a success with a non-empty sequence.
C5_EmptyIsNotFound ==
    /\ ListObserved =>
           LET a == response.args
               sliceEmpty == Len(FilteredOf(a)) <= (a.page - 1) * a.page_size
           IN  /\ response.result.status = 404 <=> sliceEmpty
               /\ ~sliceEmpty => Succeeded /\ response.result.body # << >>
    /\ WeatherObserved =>
           LET nonePasses == PassingRows(response.args) = << >>
           IN  /\ response.result.status = 404 <=> nonePasses
               /\ ~nonePasses => Succeeded /\ response.result.body # << >>

\* C5 witness: a page past the end of a non-empty filtered set is a 404.
C5_Witness ==
    /\ ListObserved
    /\ response.result.status = 404
    /\ FilteredOf(response.args) # << >>

\* C6: get-by-id fails with 404 when no case report has the id, and when one
\* has it succeeds and returns that record and no other.
C6_GetByIdReturnsThatRecord ==
    GetObserved =>
        LET id == response.args.report_id
            exists == \E i \in 1..Len(case_reports) : case_reports[i].id = id
        IN  /\ ~exists => response.result.status = 404
            /\ exists =>
                   /\ Succeeded
                   /\ response.result.body.id = id
                   /\ \E i \in 1..Len(case_reports) :
                          case_reports[i] = response.result.body

\* C6 witness: the record returned is not the first row of the table.
C6_Witness ==
    /\ GetObserved /\ Succeeded
    /\ Len(case_reports) = 3
    /\ response.result.body = case_reports[3]

\* C7: a list request with weekNumber = 0 has the outcome of the same request
\* with no weekNumber: the same records in the same order, or the same 404.
C7_WeekZeroIsNoFilter ==
    (ListObserved /\ response.args.weekNumber = Some(0)) =>
        LET a == response.args
        IN  response.result =
                get_case_reports_result(a.caseType, a.reportingEntityType,
                                        None, a.page, a.page_size)

\* C7 witness: a request with weekNumber = 0 is answered with a record whose
\* weekNumber is not 0.
C7_Witness ==
    /\ ListObserved /\ Succeeded
    /\ response.args.weekNumber = Some(0)
    /\ \E i \in 1..Len(response.result.body) :
           response.result.body[i].weekNumber = Some(1)

\* Relative humidities, in hundredths of a percent.
Humidities == {0, 5000, 8000}

\* C8: compute_heat_index is humidity-blind: for the temperature of every
\* temperature-max row and every observation, any two present humidities
\* give the same outcome.
C8_HeatIndexIgnoresHumidity ==
    /\ \A i \in 1..Len(tmax_daily_tmax_region), h1 \in Humidities, h2 \in Humidities :
           compute_heat_index(tmax_daily_tmax_region[i].value, Some(h1)) =
               compute_heat_index(tmax_daily_tmax_region[i].value, Some(h2))
    /\ (WeatherObserved /\ Succeeded) =>
           \A k \in 1..Len(response.result.body), h \in Humidities :
               LET obs == response.result.body[k]
               IN  obs.relative_humidity # None =>
                       obs.heat_index = compute_heat_index(obs.temperature_max, Some(h))

\* C8 witness: an observation with a present heat index, which another
\* humidity than the row's gives too.
C8_Witness ==
    /\ WeatherObserved /\ Succeeded
    /\ \E k \in 1..Len(response.result.body) :
           LET obs == response.result.body[k]
           IN  /\ obs.heat_index # None
               /\ obs.relative_humidity = Some(5000)
               /\ obs.heat_index = compute_heat_index(obs.temperature_max, Some(8000))

\* The arithmetic of the heat index raises: ZeroDivisionError at -273.15 C,
\* OverflowError of math.exp from -281.00 C up to -273.15 C.
ArithmeticRaises(temperature) ==
    temperature >= -28100 /\ temperature <= -27315

InFlight(r) == pc[r] \in {"handler", "returned", "raised"}

\* C10: every request has a session of its own, closed once the request has
\* finished, whether it ended in success, in 404 or in a propagated error;
\* no two requests share a session and no session stays open after its
\* request.
C10_SessionPerRequest ==
    /\ \A r \in Requests :
           /\ pc[r] = "done" => sessions[sess[r]] = "closed"
           /\ InFlight(r) => sessions[sess[r]] = "open"
    /\ \A r1 \in Requests, r2 \in Requests :
           (r1 # r2 /\ sess[r1] # 0) => sess[r1] # sess[r2]
    /\ \A s \in 1..Len(sessions) :
           sessions[s] = "open" => \E r \in Requests : sess[r] = s /\ InFlight(r)

\* C10 witness: a request has finished with a server error and its session
\* is closed, while a request that took its session earlier has been answered
\* 404 and still holds its own session open.
C10_Witness ==
    \E r1 \in Requests, r2 \in Requests :
        /\ pc[r1] = "done" /\ status[r1] = 500
        /\ sessions[sess[r1]] = "closed"
        /\ pc[r2] = "raised" /\ status[r2] = 404
        /\ sessions[sess[r2]] = "open"
        /\ sess[r2] < sess[r1]

====
